---- MODULE Spec2Model ----
(***************************************************************************)
(* zbus-lockstep: resolution of a record type against the signals declared *)
(* in a directory of D-Bus introspection documents (the `validate` macro), *)
(* extraction of signal / method signatures from a document, and the       *)
(* equivalence of two signatures.                                          *)
(*                                                                         *)
(* Strings whose characters matter (signal names, the record type's name,  *)
(* signatures) are sequences of one-character strings; an Option<T> is the *)
(* set {} (None) or {x} (Some(x)).                                         *)
(***************************************************************************)
EXTENDS Integers, Sequences, FiniteSets, TLC

\* ------------------------------------------------------------------------
\* Bounds of the model
\* ------------------------------------------------------------------------
MaxDecls == 3     \* <signal> elements over all the XML files of the directory
MaxNodeSize == 4  \* <interface>, <signal>, <method> and <arg> elements of a node
MaxTerms == 2     \* top-level terms of a signature inside its wrappers
MaxWrap == 2      \* struct wrappers around a signature
MaxBodyArgs == 2  \* <arg> elements over all the signals of the directory

None == {}
Some(x) == {x}
Unwrap(o) == CHOOSE x \in o : TRUE

\* Interface names are only ever compared for equality.
IfaceNames == {"org.example.Node", "org.example.Tree"}

\* Signal names ("R" ~ Remove, "RN" ~ RemoveNode).
SigNames == {<<"R">>, <<"R", "N">>}

\* Names of the annotated struct
\* ("RNS" ~ RemoveNodeSignal, "RS" ~ RemoveSignal, "NS" ~ NodeSignal).
ItemNames == {<<"R", "N", "S">>, <<"R", "S">>, <<"N", "S">>}

VARIABLES
    xml_files,   \* HashMap<PathBuf, String>: path |-> the file's interfaces
    vcall,       \* the macro invocation: item_name and the hints, or None
    vout,        \* what the macro expansion produced, or None
    xnode,       \* zbus::xml::Node read by an extraction: its interfaces
    ecall,       \* the extraction called and its arguments, or None
    eout,        \* the Result the extraction returned, or None
    lhs, rhs,    \* the two signatures handed to signatures_are_eq
    eq_out,      \* signatures_are_eq(lhs, rhs), or None
    eq_swapped,  \* signatures_are_eq(rhs, lhs), or None
    xml_args,    \* (file, interface, signal) |-> the type strings of its <arg>s
    item_sig,    \* <Item as zvariant::Type>::signature() of the annotated struct
    tout,        \* how the generated test ended, or None
    xml_arg,     \* the macro's `xml:` argument, an Option<PathBuf>
    env_xml,     \* std::env::var("ZBUS_LOCKSTEP_XML_PATH"), as an Option
    exists,      \* which of ./xml and ./XML exist
    xml          \* `xml` after resolve_xml_path, None before it has run

rvars == <<xml_files, vcall, vout>>
evars == <<xnode, ecall, eout>>
qvars == <<lhs, rhs, eq_out, eq_swapped>>
tvars == <<xml_args, item_sig, tout>>
pvars == <<xml_arg, env_xml, exists, xml>>
vars == <<xml_files, vcall, vout, xnode, ecall, eout, lhs, rhs, eq_out, eq_swapped,
          xml_args, item_sig, tout, xml_arg, env_xml, exists, xml>>

\* ------------------------------------------------------------------------
\* str::contains
\* ------------------------------------------------------------------------
Contains(hay, needle) ==
    \E i \in 0..(Len(hay) - Len(needle)) :
        \A k \in 1..Len(needle) : hay[i + k] = needle[k]

\* ------------------------------------------------------------------------
\* The search loop of `validate`
\* ------------------------------------------------------------------------
SearchStart ==
    [interface_name |-> None, signal_name |-> None, xml_file_path |-> None,
     returned |-> FALSE]

Found(st, path_key, iname, xml_signal_name) ==
    [st EXCEPT !.interface_name = Some(iname),
               !.signal_name = Some(xml_signal_name),
               !.xml_file_path = Some(path_key)]

\* One iteration of `for signal in interface.signals()`.
ScanSignalFirstWins(st, path_key, iname, xml_signal_name, item_name, args) ==
    IF st.returned THEN st
    ELSE IF args.signal # None /\ xml_signal_name # Unwrap(args.signal) THEN st
    ELSE IF args.signal # None /\ xml_signal_name = Unwrap(args.signal)
         THEN Found(st, path_key, iname, xml_signal_name)
    ELSE IF Contains(item_name, xml_signal_name)
         THEN IF st.interface_name # None /\ st.signal_name # None
              THEN st
              ELSE Found(st, path_key, iname, xml_signal_name)
    ELSE st

ScanSignal(st, path_key, iname, xml_signal_name, item_name, args) ==
    IF st.returned THEN st
    ELSE IF args.signal # None /\ xml_signal_name # Unwrap(args.signal) THEN st
    ELSE IF args.signal # None /\ xml_signal_name = Unwrap(args.signal)
         THEN Found(st, path_key, iname, xml_signal_name)
    ELSE IF Contains(item_name, xml_signal_name)
         THEN IF st.interface_name # None /\ st.signal_name # None
              THEN [st EXCEPT !.returned = TRUE]
              ELSE Found(st, path_key, iname, xml_signal_name)
    ELSE st

RECURSIVE ScanSignals(_, _, _, _, _, _, _)
ScanSignals(st, path_key, iname, signals, k, item_name, args) ==
    IF k > Len(signals) THEN st
    ELSE ScanSignals(ScanSignal(st, path_key, iname, signals[k], item_name, args),
                     path_key, iname, signals, k + 1, item_name, args)

\* One iteration of `for interface in node.interfaces()`.
ScanInterfaceNoSkip(st, path_key, interface, item_name, args) ==
    ScanSignals(st, path_key, interface.name, interface.signals, 1, item_name, args)

ScanInterface(st, path_key, interface, item_name, args) ==
    IF args.interface # None /\ interface.name # Unwrap(args.interface)
    THEN st
    ELSE ScanSignals(st, path_key, interface.name, interface.signals, 1,
                     item_name, args)

RECURSIVE ScanInterfaces(_, _, _, _, _, _)
ScanInterfaces(st, path_key, interfaces, j, item_name, args) ==
    IF j > Len(interfaces) THEN st
    ELSE ScanInterfaces(ScanInterface(st, path_key, interfaces[j], item_name, args),
                        path_key, interfaces, j + 1, item_name, args)

\* `for (path_key, xml_string) in xml_files`, in the order the map yields.
RECURSIVE ScanFiles(_, _, _, _, _, _)
ScanFiles(st, files, order, d, item_name, args) ==
    IF d > Len(order) THEN st
    ELSE ScanFiles(ScanInterfaces(st, order[d], files[order[d]], 1, item_name, args),
                   files, order, d + 1, item_name, args)

\* ------------------------------------------------------------------------
\* The outcomes of the macro expansion
\* ------------------------------------------------------------------------
\* syn::Error with a fixed text.
AmbiguousErrorWithKey(item_name, args) ==
    [kind |-> "Ambiguous",
     text |-> "Multiple interfaces with the same signal name. Please disambiguate.",
     fmt_args |-> <<IF args.signal # None THEN Unwrap(args.signal) ELSE item_name>>]

AmbiguousError(item_name, args) ==
    [kind |-> "Ambiguous",
     text |-> "Multiple interfaces with the same signal name. Please disambiguate.",
     fmt_args |-> <<>>]

\* syn::Error built by format!: the template and the interpolated arguments.
NotFoundErrorItemName(item_name, args) ==
    [kind |-> "NotFound",
     text |-> "No interface matching signal name '{}' found.",
     fmt_args |-> <<item_name>>]

NotFoundError(item_name, args) ==
    [kind |-> "NotFound",
     text |-> "No interface matching signal name '{}' found.",
     fmt_args |-> <<IF args.signal # None THEN Unwrap(args.signal) ELSE item_name>>]

\* The generated test, named by what it will read.
Resolved(st) ==
    [kind |-> "Ok",
     interface_name |-> Unwrap(st.interface_name),
     signal_name |-> Unwrap(st.signal_name),
     xml_file_path |-> Unwrap(st.xml_file_path)]

Expand(files, order, item_name, args) ==
    LET st == ScanFiles(SearchStart, files, order, 1, item_name, args)
    IN  IF st.returned THEN AmbiguousError(item_name, args)
        ELSE IF st.interface_name = None THEN NotFoundError(item_name, args)
        ELSE Resolved(st)

\* The orders in which a HashMap may yield its keys.
Orders(S) ==
    {o \in [1..Cardinality(S) -> S] : \A i, j \in 1..Cardinality(S) : o[i] = o[j] => i = j}

\* ------------------------------------------------------------------------
\* The XML directory (the macro's input) and the macro invocation
\* ------------------------------------------------------------------------
NumDecls(files) ==
    LET RECURSIVE SumI(_, _)
        SumI(ifs, j) == IF j > Len(ifs) THEN 0
                        ELSE Len(ifs[j].signals) + SumI(ifs, j + 1)
        RECURSIVE SumD(_)
        SumD(S) == IF S = {} THEN 0
                   ELSE LET p == CHOOSE p \in S : TRUE
                        IN SumI(files[p], 1) + SumD(S \ {p})
    IN SumD(DOMAIN files)

\* The slots a <signal> can take: (file, interface, signal) positions.
DeclSlots == (1..MaxDecls) \X (1..MaxDecls) \X (1..MaxDecls)

\* No generated test has been built or run.
NoTest ==
    /\ xml_args = [d \in DeclSlots |-> <<>>]
    /\ item_sig = <<>>
    /\ tout = None

\* No XML path is being resolved.
NoPath ==
    /\ xml_arg = None
    /\ env_xml = None
    /\ exists = {}
    /\ xml = None

InitResolve ==
    /\ xml_files = <<>>
    /\ vcall = None
    /\ vout = None
    /\ xnode = <<>>
    /\ ecall = None
    /\ eout = None
    /\ lhs = <<>>
    /\ rhs = <<>>
    /\ eq_out = None
    /\ eq_swapped = None
    /\ NoTest
    /\ NoPath

\* The path of the file written last.
LastFile == Cardinality(DOMAIN xml_files)

\* A new file whose <node> holds one <interface> with one <signal>.
AddFile ==
    /\ vcall = None
    /\ NumDecls(xml_files) < MaxDecls
    /\ \E n \in IfaceNames, s \in SigNames :
         xml_files' = [p \in (DOMAIN xml_files) \cup {LastFile + 1} |->
                         IF p \in DOMAIN xml_files THEN xml_files[p]
                         ELSE <<[name |-> n, signals |-> <<s>>]>>]
    /\ UNCHANGED <<vcall, vout, evars, qvars, tvars, pvars>>

\* An <interface> with one <signal>, appended to the <node> of the last file.
AddInterface ==
    /\ vcall = None
    /\ NumDecls(xml_files) < MaxDecls
    /\ LastFile > 0
    /\ \E n \in IfaceNames, s \in SigNames :
         xml_files' = [xml_files EXCEPT ![LastFile] =
                         Append(@, [name |-> n, signals |-> <<s>>])]
    /\ UNCHANGED <<vcall, vout, evars, qvars, tvars, pvars>>

\* A <signal> appended to the last <interface> of the last file.
AddSignal ==
    /\ vcall = None
    /\ NumDecls(xml_files) < MaxDecls
    /\ LastFile > 0
    /\ \E s \in SigNames :
         xml_files' = [xml_files EXCEPT
                         ![LastFile][Len(xml_files[LastFile])].signals = Append(@, s)]
    /\ UNCHANGED <<vcall, vout, evars, qvars, tvars, pvars>>

\* #[validate(interface: .., signal: ..)] struct <item_name>
Validate ==
    /\ vcall = None
    /\ \E item_name \in ItemNames,
          interface \in {None} \cup {Some(n) : n \in IfaceNames},
          signal \in {None} \cup {Some(s) : s \in SigNames},
          order \in Orders(DOMAIN xml_files) :
         LET args == [interface |-> interface, signal |-> signal]
         IN  /\ vcall' = Some([item_name |-> item_name, args |-> args])
             /\ vout' = Some(Expand(xml_files, order, item_name, args))
    /\ UNCHANGED <<xml_files, evars, qvars, tvars, pvars>>

NextResolve == AddFile \/ AddInterface \/ AddSignal \/ Validate

SpecResolve == InitResolve /\ [][NextResolve]_vars

\* ------------------------------------------------------------------------
\* Extraction of signatures from a node
\* ------------------------------------------------------------------------
MemberNames == {"Notify", "Closed"}
ArgNames == {"id"}
Directions == {"in", "out"}

\* Type strings of <arg> elements.
ArgTypes == {<<"s">>, <<"u">>, <<"(", "s", "o", ")">>}

\* iter().find(pred): the position of the first element with the name, or 0.
FindNamed(seq, name) ==
    IF \E k \in 1..Len(seq) : seq[k].name = name
    THEN CHOOSE k \in 1..Len(seq) :
            seq[k].name = name /\ \A j \in 1..(k - 1) : seq[j].name # name
    ELSE 0

Ok(signature) == [kind |-> "Ok", signature |-> signature]
InterfaceNotFound == [kind |-> "InterfaceNotFound"]
MissingParameter(text) == [kind |-> "MissingParameter", text |-> text]

\* map(Arg::ty).collect::<String>()
RECURSIVE CollectTyWrapped(_, _)
CollectTyWrapped(args, k) ==
    IF k > Len(args) THEN <<>>
    ELSE (IF Len(args[k].ty) > 1 THEN <<"(">> \o args[k].ty \o <<")">> ELSE args[k].ty)
         \o CollectTyWrapped(args, k + 1)

RECURSIVE CollectTy(_, _)
CollectTy(args, k) ==
    IF k > Len(args) THEN <<>>
    ELSE args[k].ty \o CollectTy(args, k + 1)

\* filter(|arg| arg.direction() == Some(direction)).map(|arg| arg.ty()).collect()
RECURSIVE CollectTyOfAnyDirection(_, _, _)
CollectTyOfAnyDirection(args, direction, k) ==
    IF k > Len(args) THEN <<>>
    ELSE args[k].ty \o CollectTyOfAnyDirection(args, direction, k + 1)

RECURSIVE CollectTyOf(_, _, _)
CollectTyOf(args, direction, k) ==
    IF k > Len(args) THEN <<>>
    ELSE (IF args[k].direction = Some(direction) THEN args[k].ty ELSE <<>>)
         \o CollectTyOf(args, direction, k + 1)

\* args.iter().find(|arg| arg.name() == Some(arg_name)) ... .ty(); the
\* parameter is the whole Option, Some(arg_name), that name() is compared with.
NamedArgTyOfDirection(args, arg_name) ==
    LET named == SelectSeq(args, LAMBDA x : x.direction # Some("in"))
        a == FindNamed(named, arg_name)
    IN  IF a = 0 THEN Ok(<<>>)
        ELSE Ok(named[a].ty)

NamedArgTy(args, arg_name) ==
    LET a == FindNamed(args, arg_name)
    IN  IF a = 0 THEN MissingParameter("no matching argument found")
        ELSE Ok(args[a].ty)

get_signal_body_type(node, interface_name, member_name, arg) ==
    LET i == FindNamed(node, interface_name)
    IN  IF i = 0 THEN InterfaceNotFound
        ELSE LET signals == node[i].signals
                 m == FindNamed(signals, member_name)
             IN  IF m = 0
                 THEN MissingParameter("no signal matching supplied member")
                 ELSE IF arg # None THEN NamedArgTy(signals[m].args, arg)
                      ELSE Ok(CollectTy(signals[m].args, 1))

\* Both method extractions, `direction` being the one their filter names.
MethodType(node, interface_name, member_name, arg_name, direction) ==
    LET i == FindNamed(node, interface_name)
    IN  IF i = 0 THEN InterfaceNotFound
        ELSE LET methods == node[i].methods
                 m == FindNamed(methods, member_name)
             IN  IF m = 0
                 THEN MissingParameter("no method matches supplied member")
                 ELSE IF arg_name # None THEN NamedArgTy(methods[m].args, arg_name)
                      ELSE Ok(CollectTyOf(methods[m].args, direction, 1))

get_method_return_type(node, interface_name, member_name, arg_name) ==
    MethodType(node, interface_name, member_name, arg_name, "out")

get_method_args_type(node, interface_name, member_name, arg_name) ==
    MethodType(node, interface_name, member_name, arg_name, "in")

\* ------------------------------------------------------------------------
\* The node (the extractions' input) and the calls
\* ------------------------------------------------------------------------
RECURSIVE MembersSize(_, _)
MembersSize(members, k) ==
    IF k > Len(members) THEN 0
    ELSE 1 + Len(members[k].args) + MembersSize(members, k + 1)

RECURSIVE NodeSize(_, _)
NodeSize(node, i) ==
    IF i > Len(node) THEN 0
    ELSE 1 + MembersSize(node[i].signals, 1) + MembersSize(node[i].methods, 1)
         + NodeSize(node, i + 1)

Args ==
    [name : {None} \cup {Some(n) : n \in ArgNames},
     ty : ArgTypes,
     direction : {None} \cup {Some(d) : d \in Directions}]

InitExtract ==
    /\ xml_files = <<>>
    /\ vcall = None
    /\ vout = None
    /\ xnode = <<>>
    /\ ecall = None
    /\ eout = None
    /\ lhs = <<>>
    /\ rhs = <<>>
    /\ eq_out = None
    /\ eq_swapped = None
    /\ NoTest
    /\ NoPath

CanGrow == ecall = None /\ NodeSize(xnode, 1) < MaxNodeSize

\* An empty <interface> appended to the node.
AddNodeInterface ==
    /\ CanGrow
    /\ \E n \in IfaceNames :
         xnode' = Append(xnode, [name |-> n, signals |-> <<>>, methods |-> <<>>])
    /\ UNCHANGED <<rvars, ecall, eout, qvars, tvars, pvars>>

\* A <signal> without args appended to the last interface.
AddNodeSignal ==
    /\ CanGrow /\ Len(xnode) > 0
    /\ \E m \in MemberNames :
         xnode' = [xnode EXCEPT ![Len(xnode)].signals =
                      Append(@, [name |-> m, args |-> <<>>])]
    /\ UNCHANGED <<rvars, ecall, eout, qvars, tvars, pvars>>

\* A <method> without args appended to the last interface.
AddNodeMethod ==
    /\ CanGrow /\ Len(xnode) > 0
    /\ \E m \in MemberNames :
         xnode' = [xnode EXCEPT ![Len(xnode)].methods =
                      Append(@, [name |-> m, args |-> <<>>])]
    /\ UNCHANGED <<rvars, ecall, eout, qvars, tvars, pvars>>

\* An <arg> appended to the last signal of the last interface.
AddSignalArg ==
    /\ CanGrow /\ Len(xnode) > 0 /\ Len(xnode[Len(xnode)].signals) > 0
    /\ \E a \in Args :
         xnode' = [xnode EXCEPT
                      ![Len(xnode)].signals[Len(xnode[Len(xnode)].signals)].args =
                          Append(@, a)]
    /\ UNCHANGED <<rvars, ecall, eout, qvars, tvars, pvars>>

\* An <arg> appended to the last method of the last interface.
AddMethodArg ==
    /\ CanGrow /\ Len(xnode) > 0 /\ Len(xnode[Len(xnode)].methods) > 0
    /\ \E a \in Args :
         xnode' = [xnode EXCEPT
                      ![Len(xnode)].methods[Len(xnode[Len(xnode)].methods)].args =
                          Append(@, a)]
    /\ UNCHANGED <<rvars, ecall, eout, qvars, tvars, pvars>>

CallArgs ==
    [interface_name : IfaceNames, member_name : MemberNames,
     arg : {None} \cup {Some(n) : n \in ArgNames \cup {"path"}}]

GetSignalBodyType ==
    /\ ecall = None
    /\ \E c \in CallArgs :
         /\ ecall' = Some([fn |-> "get_signal_body_type"] @@ c)
         /\ eout' = Some(get_signal_body_type(xnode, c.interface_name,
                                              c.member_name, c.arg))
    /\ UNCHANGED <<rvars, xnode, qvars, tvars, pvars>>

GetMethodReturnType ==
    /\ ecall = None
    /\ \E c \in CallArgs :
         /\ ecall' = Some([fn |-> "get_method_return_type"] @@ c)
         /\ eout' = Some(get_method_return_type(xnode, c.interface_name,
                                                c.member_name, c.arg))
    /\ UNCHANGED <<rvars, xnode, qvars, tvars, pvars>>

GetMethodArgsType ==
    /\ ecall = None
    /\ \E c \in CallArgs :
         /\ ecall' = Some([fn |-> "get_method_args_type"] @@ c)
         /\ eout' = Some(get_method_args_type(xnode, c.interface_name,
                                              c.member_name, c.arg))
    /\ UNCHANGED <<rvars, xnode, qvars, tvars, pvars>>

NextExtract ==
    \/ AddNodeInterface \/ AddNodeSignal \/ AddNodeMethod
    \/ AddSignalArg \/ AddMethodArg
    \/ GetSignalBodyType \/ GetMethodReturnType \/ GetMethodArgsType

SpecExtract == InitExtract /\ [][NextExtract]_vars

\* ------------------------------------------------------------------------
\* Equivalence of two signatures (marshall::signatures_are_eq)
\* ------------------------------------------------------------------------
Opening == {"(", "{"}
Closing == {")", "}"}

\* The position of the bracket that closes the one opened before position i,
\* depth brackets being open there; the end of s when nothing closes it.
RECURSIVE CloseOf(_, _, _)
CloseOf(s, i, depth) ==
    IF i > Len(s) THEN Len(s)
    ELSE IF s[i] \in Opening THEN CloseOf(s, i + 1, depth + 1)
    ELSE IF s[i] \in Closing
         THEN IF depth = 1 THEN i ELSE CloseOf(s, i + 1, depth - 1)
    ELSE CloseOf(s, i + 1, depth)

\* The position of the last character of the top-level term starting at i.
RECURSIVE TokenEnd(_, _)
TokenEnd(s, i) ==
    IF s[i] = "a" THEN (IF i < Len(s) THEN TokenEnd(s, i + 1) ELSE i)
    ELSE IF s[i] \in Opening THEN CloseOf(s, i + 1, 1)
    ELSE i

\* The flat top-level term sequence of s from position i on; a container is
\* one term, kept as its own string.
RECURSIVE TokensFrom(_, _)
TokensFrom(s, i) ==
    IF i > Len(s) THEN <<>>
    ELSE LET e == TokenEnd(s, i)
         IN  <<SubSeq(s, i, e)>> \o TokensFrom(s, e + 1)

Tokens(s) == TokensFrom(s, 1)

\* s is exactly one struct term.
IsSoleStruct(s) ==
    /\ Len(s) >= 2
    /\ s[1] = "("
    /\ s[Len(s)] = ")"
    /\ Len(Tokens(s)) = 1

\* s without its sole enclosing struct wrapper.
StripAllWrappers(s) ==
    LET RECURSIVE Peel(_)
        Peel(x) == IF IsSoleStruct(x) THEN Peel(SubSeq(x, 2, Len(x) - 1)) ELSE x
    IN Peel(s)

StripWrapper(s) == SubSeq(s, 2, Len(s) - 1)

\* wrapped is one struct term around the whole top-level sequence of plain.
WrapsOnlySeveral(wrapped, plain) ==
    /\ IsSoleStruct(wrapped)
    /\ Len(Tokens(plain)) >= 2
    /\ Tokens(StripWrapper(wrapped)) = Tokens(plain)

Wraps(wrapped, plain) ==
    /\ IsSoleStruct(wrapped)
    /\ Tokens(StripWrapper(wrapped)) = Tokens(plain)

signatures_are_eq_lhs_wrapper_only(a, b) ==
    \/ a = b
    \/ Wraps(a, b)
    \/ Tokens(a) = Tokens(b)

signatures_are_eq(a, b) ==
    \/ a = b
    \/ Wraps(a, b)
    \/ Wraps(b, a)
    \/ Tokens(a) = Tokens(b)

\* Well-formed signatures: up to MaxTerms terms, in up to MaxWrap wrappers.
Terms ==
    {<<"i">>, <<"u">>, <<"s">>, <<"a", "{", "s", "v", "}">>, <<"(", "i", ")">>}

RECURSIVE Flat(_)
Flat(n) == IF n = 0 THEN {<<>>} ELSE {t \o f : t \in Terms, f \in Flat(n - 1)}

RECURSIVE Wrapped(_)
Wrapped(k) ==
    IF k = 0 THEN UNION {Flat(n) : n \in 1..MaxTerms}
    ELSE {<<"(">> \o s \o <<")">> : s \in Wrapped(k - 1)}

Signatures == {<<>>} \cup UNION {Wrapped(k) : k \in 0..MaxWrap}

InitEq ==
    /\ xml_files = <<>>
    /\ vcall = None
    /\ vout = None
    /\ xnode = <<>>
    /\ ecall = None
    /\ eout = None
    /\ lhs \in Signatures
    /\ rhs \in Signatures
    /\ eq_out = None
    /\ eq_swapped = None
    /\ NoTest
    /\ NoPath

SignaturesAreEq ==
    /\ eq_out = None
    /\ eq_out' = Some(signatures_are_eq(lhs, rhs))
    /\ UNCHANGED <<rvars, evars, lhs, rhs, eq_swapped, tvars, pvars>>

\* The same two signatures, compared the other way round.
SignaturesAreEqSwapped ==
    /\ eq_out # None
    /\ eq_swapped = None
    /\ eq_swapped' = Some(signatures_are_eq(rhs, lhs))
    /\ UNCHANGED <<rvars, evars, lhs, rhs, eq_out, tvars, pvars>>

NextEq == SignaturesAreEq \/ SignaturesAreEqSwapped

SpecEq == InitEq /\ [][NextEq]_vars

\* ------------------------------------------------------------------------
\* Properties of the resolution
\* ------------------------------------------------------------------------
Done == vcall # None
Call == Unwrap(vcall)
Out == Unwrap(vout)

\* Every <signal> of every file: (file, position of the interface, position
\* of the signal).
Decls ==
    {d \in (DOMAIN xml_files) \X (1..MaxDecls) \X (1..MaxDecls) :
        /\ d[2] <= Len(xml_files[d[1]])
        /\ d[3] <= Len(xml_files[d[1]][d[2]].signals)}

DeclInterface(d) == xml_files[d[1]][d[2]].name
DeclSignal(d) == xml_files[d[1]][d[2]].signals[d[3]]

\* The declarations in interfaces the interface hint admits.
Admissible ==
    {d \in Decls : Call.args.interface = None
                   \/ DeclInterface(d) = Unwrap(Call.args.interface)}

\* The admissible declarations the record type may correspond to.
Candidates ==
    {d \in Admissible :
        IF Call.args.signal # None
        THEN DeclSignal(d) = Unwrap(Call.args.signal)
        ELSE Contains(Call.item_name, DeclSignal(d))}

SearchKey ==
    IF Call.args.signal # None THEN Unwrap(Call.args.signal) ELSE Call.item_name

\* C1: without a signal hint, two or more candidate declarations (in different
\* files, in different interfaces of one file, or in one interface) always
\* make the expansion fail with the Ambiguous error.
C1_AmbiguousWithoutHint ==
    (Done /\ Call.args.signal = None /\ Cardinality(Candidates) >= 2)
        => Out.kind = "Ambiguous"

\* Two candidates of different names in one interface were reported.
C1_Witness ==
    /\ Done /\ Call.args.signal = None /\ Out.kind = "Ambiguous"
    /\ Cardinality(Candidates) = 2
    /\ \E d, e \in Candidates : d[1] = e[1] /\ d[2] = e[2] /\ d[3] # e[3]
                                /\ DeclSignal(d) # DeclSignal(e)

\* C2: with a signal hint, two or more admissible declarations whose name
\* equals the hint make the expansion fail with the Ambiguous error.
C2_AmbiguousWithHint ==
    (Done /\ Call.args.signal # None /\ Cardinality(Candidates) >= 2)
        => Out.kind = "Ambiguous"

\* C3: exactly one candidate is resolved to its interface, its name and its
\* file; and a resolved interface is the hinted one whenever there is a hint.
C3_UniqueCandidateResolved ==
    Done =>
        /\ Cardinality(Candidates) = 1 =>
              LET d == CHOOSE d \in Candidates : TRUE
              IN  Out = [kind |-> "Ok", interface_name |-> DeclInterface(d),
                         signal_name |-> DeclSignal(d), xml_file_path |-> d[1]]
        /\ (Out.kind = "Ok" /\ Call.args.interface # None)
              => Out.interface_name = Unwrap(Call.args.interface)

\* The single candidate was found behind an interface hint that excludes
\* another declaration of the same name, scanned in a file of its own.
C3_Witness ==
    /\ Done /\ Cardinality(Candidates) = 1 /\ Out.kind = "Ok"
    /\ Call.args.interface # None
    /\ \E d \in Candidates, e \in Decls \ Admissible :
          DeclSignal(e) = DeclSignal(d) /\ e[1] # d[1]

\* C4: with no candidate at all the expansion fails with the NotFound error
\* that names the signal hint, or the record type's name without a hint.
C4_NotFoundNamesKey ==
    (Done /\ Candidates = {}) =>
        /\ Out.kind = "NotFound"
        /\ Out.fmt_args = <<SearchKey>>

\* NotFound with a signal hint, where the interface hint names no interface
\* of any file although a signal of the hinted name is declared.
C4_Witness ==
    /\ Done /\ Candidates = {} /\ Out.kind = "NotFound"
    /\ Call.args.signal # None /\ Call.args.interface # None
    /\ Admissible = {}
    /\ \E d \in Decls : DeclSignal(d) = Unwrap(Call.args.signal)

\* C5 as stated: the Ambiguous error carries the search key and the
\* identities of the competing candidates.
C5_AmbiguousCarriesContext ==
    (Done /\ Out.kind = "Ambiguous") =>
        /\ \E n \in 1..Len(Out.fmt_args) : Out.fmt_args[n] = SearchKey
        /\ \A d \in Candidates :
              \E n \in 1..Len(Out.fmt_args) :
                 Out.fmt_args[n] = <<DeclInterface(d), DeclSignal(d), d[1]>>

\* C5 as amended: the Ambiguous error is one fixed text with nothing
\* interpolated: neither the search key nor any candidate.
C5_AmbiguousIsFixedText ==
    (Done /\ Out.kind = "Ambiguous") =>
        /\ Out.text = "Multiple interfaces with the same signal name. Please disambiguate."
        /\ Out.fmt_args = <<>>

C5_Witness ==
    /\ Done /\ Out.kind = "Ambiguous"
    /\ \E d, e \in Candidates : d[1] # e[1] /\ DeclInterface(d) # DeclInterface(e)

\* ------------------------------------------------------------------------
\* Properties of the extraction
\* ------------------------------------------------------------------------
EDone == ecall # None
ECall == Unwrap(ecall)
EOut == Unwrap(eout)

\* seq[k] is the first element of seq with the name.
FirstNamed(seq, name, k) ==
    /\ k \in 1..Len(seq)
    /\ seq[k].name = name
    /\ \A j \in 1..(k - 1) : seq[j].name # name

RECURSIVE TyLen(_, _)
TyLen(args, n) == IF n = 0 THEN 0 ELSE Len(args[n].ty) + TyLen(args, n - 1)

\* sig is the type strings of args laid end to end, in order, and no more.
IsConcatOfTypes(sig, args) ==
    /\ Len(sig) = TyLen(args, Len(args))
    /\ \A k \in 1..Len(args) :
          \A c \in 1..Len(args[k].ty) : sig[TyLen(args, k - 1) + c] = args[k].ty[c]

\* C6: with no argument name, get_signal_body_type returns the type strings
\* of all the signal's args concatenated in declared order, nothing added and
\* nothing removed (the signal being the one the names designate).
C6_SignalBodyIsConcatenation ==
    (EDone /\ ECall.fn = "get_signal_body_type" /\ ECall.arg = None) =>
        \A i \in 1..Len(xnode) :
            FirstNamed(xnode, ECall.interface_name, i) =>
                \A m \in 1..Len(xnode[i].signals) :
                    FirstNamed(xnode[i].signals, ECall.member_name, m) =>
                        /\ EOut.kind = "Ok"
                        /\ IsConcatOfTypes(EOut.signature, xnode[i].signals[m].args)

\* A body of two args, one of them a struct, came back as "(so)" then a
\* one-letter code, or the other way round.
C6_Witness ==
    /\ EDone /\ ECall.fn = "get_signal_body_type" /\ ECall.arg = None
    /\ EOut.kind = "Ok" /\ Len(EOut.signature) = 5
    /\ \E i \in 1..Len(xnode) :
          /\ FirstNamed(xnode, ECall.interface_name, i)
          /\ \E m \in 1..Len(xnode[i].signals) :
                /\ FirstNamed(xnode[i].signals, ECall.member_name, m)
                /\ Len(xnode[i].signals[m].args) = 2

MethodDirection ==
    IF ECall.fn = "get_method_return_type" THEN "out" ELSE "in"

HasMethodDirection(a) == a.direction = Some(MethodDirection)

\* C7: with no argument name, get_method_args_type returns the concatenation
\* of the types of exactly the args tagged "in", and get_method_return_type
\* that of exactly the args tagged "out", in declared order.
C7_MethodSignatureByDirection ==
    (EDone /\ ECall.fn \in {"get_method_return_type", "get_method_args_type"}
           /\ ECall.arg = None) =>
        \A i \in 1..Len(xnode) :
            FirstNamed(xnode, ECall.interface_name, i) =>
                \A m \in 1..Len(xnode[i].methods) :
                    FirstNamed(xnode[i].methods, ECall.member_name, m) =>
                        /\ EOut.kind = "Ok"
                        /\ IsConcatOfTypes(EOut.signature,
                               SelectSeq(xnode[i].methods[m].args, HasMethodDirection))

\* (s in, u out): the return type is "u".
C7_Witness ==
    /\ EDone /\ ECall.fn = "get_method_return_type" /\ ECall.arg = None
    /\ EOut = Ok(<<"u">>)
    /\ \E i \in 1..Len(xnode) :
          /\ FirstNamed(xnode, ECall.interface_name, i)
          /\ \E m \in 1..Len(xnode[i].methods) :
                /\ FirstNamed(xnode[i].methods, ECall.member_name, m)
                /\ Len(xnode[i].methods[m].args) = 2
                /\ xnode[i].methods[m].args[1].ty = <<"s">>
                /\ xnode[i].methods[m].args[1].direction = Some("in")
                /\ xnode[i].methods[m].args[2].direction = Some("out")

\* ------------------------------------------------------------------------
\* Properties of the equivalence
\* ------------------------------------------------------------------------
InParens(s) == <<"(">> \o s \o <<")">>

\* C8: a signature with at least one top-level term is equivalent to itself
\* in one struct wrapper, whichever operand carries the wrapper.
C8_OneWrapperTolerated ==
    (eq_out # None /\ (\/ (rhs = InParens(lhs) /\ Tokens(lhs) # <<>>)
                       \/ (lhs = InParens(rhs) /\ Tokens(rhs) # <<>>)))
        => eq_out = Some(TRUE)

\* "s" against "(s)": the single-element case.
C8_Witness ==
    /\ eq_out = Some(TRUE)
    /\ lhs = <<"s">>
    /\ rhs = <<"(", "s", ")">>

\* C9: two signatures are equivalent only if they are the same string, or one
\* of them is the other in exactly one struct wrapper.
C9_EquivalentOnlyUpToOneWrapper ==
    eq_out = Some(TRUE)
        => (lhs = rhs \/ lhs = InParens(rhs) \/ rhs = InParens(lhs))

\* "((ii))" against "ii": two wrapper levels are not equivalent.
C9_Witness ==
    /\ eq_out = Some(FALSE)
    /\ lhs = <<"(", "(", "i", "i", ")", ")">>
    /\ rhs = <<"i", "i">>

\* C10: comparing the same two signatures the other way round gives the
\* same answer.
C10_Symmetric ==
    eq_swapped # None => eq_swapped = eq_out

\* "ii" against "(ii)", then "(ii)" against "ii": both equivalent.
C10_Witness ==
    /\ eq_swapped = Some(TRUE)
    /\ eq_out = Some(TRUE)
    /\ lhs = <<"i", "i">>
    /\ rhs = <<"(", "i", "i", ")">>

\* ------------------------------------------------------------------------
\* The generated test `test_<Item>_type_signature`
\* ------------------------------------------------------------------------
\* Type strings of the <arg>s of a signal body.
BodyTypes == {<<"s">>, <<"o">>}

\* Signatures the annotated struct reports for itself.
ItemSignatures ==
    {<<"(", "s", ")">>, <<"(", "s", "o", ")">>, <<"(", "o", "s", ")">>}

\* What a reader yields: the text of a file of the directory, or the text of
\* its path.
XmlTextOf(path) == [text |-> "xml", path |-> path]
PathTextOf(path) == [text |-> "path", path |-> path]

\* The tree the XML text of a file parses to.
NodeOf(files, bodies, path) ==
    [i \in 1..Len(files[path]) |->
        [name |-> files[path][i].name,
         signals |->
            [k \in 1..Len(files[path][i].signals) |->
                [name |-> files[path][i].signals[k],
                 args |-> [a \in 1..Len(bodies[<<path, i, k>>]) |->
                             [name |-> None, ty |-> bodies[<<path, i, k>>][a],
                              direction |-> None]]]],
         methods |-> <<>>]]

\* Node::from_reader: the text of a path is no XML document.
ParseError == [kind |-> "ParseError"]

from_reader(files, bodies, reader) ==
    IF reader.text = "xml" THEN Some(NodeOf(files, bodies, reader.path)) ELSE None

\* get_signal_body_type on a reader: `Node::from_reader(&mut xml)?` first.
ReadSignalBodyType(files, bodies, reader, interface_name, member_name, arg) ==
    LET node == from_reader(files, bodies, reader)
    IN  IF node = None THEN ParseError
        ELSE get_signal_body_type(Unwrap(node), interface_name, member_name, arg)

Passed == [kind |-> "passed"]
Panicked(text) == [kind |-> "panicked", text |-> text]

\* The body of the generated test, for the expansion `out` of the macro.
GeneratedTest(files, bodies, out, signature) ==
    LET item_signature_from_xml ==
            ReadSignalBodyType(files, bodies, PathTextOf(out.xml_file_path),
                               out.interface_name, out.signal_name, None)
    IN  IF item_signature_from_xml.kind # "Ok"
        THEN Panicked("Failed to get signal body type from XML file")
        ELSE IF signatures_are_eq(item_signature_from_xml.signature, signature)
             THEN Passed
             ELSE Panicked("assert_eq_signatures")

RECURSIVE NumBodyArgs(_, _)
NumBodyArgs(bodies, S) ==
    IF S = {} THEN 0
    ELSE LET d == CHOOSE d \in S : TRUE
         IN Len(bodies[d]) + NumBodyArgs(bodies, S \ {d})

\* An <arg> appended to a declared <signal>.
AddBodyArg ==
    /\ vcall = None
    /\ NumBodyArgs(xml_args, Decls) < MaxBodyArgs
    /\ \E d \in Decls, ty \in BodyTypes :
         xml_args' = [xml_args EXCEPT ![d] = Append(@, ty)]
    /\ UNCHANGED <<rvars, evars, qvars, item_sig, tout, pvars>>

\* `cargo test` runs the test the expansion generated.
RunGeneratedTest ==
    /\ vout # None /\ Out.kind = "Ok"
    /\ tout = None
    /\ \E signature \in ItemSignatures :
         /\ item_sig' = signature
         /\ tout' = Some(GeneratedTest(xml_files, xml_args, Out, signature))
    /\ UNCHANGED <<rvars, evars, qvars, xml_args, pvars>>

NextCheck ==
    \/ AddFile \/ AddInterface \/ AddSignal \/ AddBodyArg
    \/ Validate \/ RunGeneratedTest

SpecCheck == InitResolve /\ [][NextCheck]_vars

\* The body signature of the declaration the expansion resolved, read from
\* the XML text of the file it was found in.
ExpectedSignature ==
    ReadSignalBodyType(xml_files, xml_args, XmlTextOf(Out.xml_file_path),
                       Out.interface_name, Out.signal_name, None)

\* C11: the generated test reads the body signature from the XML text of the
\* file the declaration was found in, with the resolved names; it passes when
\* the struct's signature is equivalent to it and fails on the equivalence
\* assertion when it is not.
C11_GeneratedTestDecides ==
    tout # None =>
        /\ ExpectedSignature.kind = "Ok"
        /\ IF signatures_are_eq(ExpectedSignature.signature, item_sig)
           THEN Unwrap(tout) = Passed
           ELSE Unwrap(tout) = Panicked("assert_eq_signatures")

\* ------------------------------------------------------------------------
\* The directory of the XML files (resolve_xml_path)
\* ------------------------------------------------------------------------
\* current_dir()/xml and current_dir()/XML, and a directory elsewhere.
DefaultPath == "./xml"
DefaultAltPath == "./XML"
Paths == {DefaultPath, DefaultAltPath, "zbus-lockstep-macros/tests/xml"}

\* The conventional directory only when there is no argument.
resolve_xml_path_arg_first(xml_in, present, env_path_xml) ==
    IF xml_in # None THEN xml_in
    ELSE IF env_path_xml # None THEN env_path_xml
    ELSE IF DefaultAltPath \in present THEN Some(DefaultAltPath)
    ELSE IF DefaultPath \in present THEN Some(DefaultPath)
    ELSE None

\* `xml` as resolve_xml_path leaves it.
resolve_xml_path(xml_in, present, env_path_xml) ==
    LET lower == IF xml_in = None /\ DefaultPath \in present
                 THEN Some(DefaultPath) ELSE xml_in
        upper == IF xml_in = None /\ DefaultAltPath \in present
                 THEN Some(DefaultAltPath) ELSE lower
    IN  IF env_path_xml # None THEN env_path_xml ELSE upper

\* The start of `validate`: the path, or the compile error for want of one.
PathOutcome(path) ==
    [xml |-> path,
     error |-> IF path = None
               THEN Some("No XML file provided and no default XML file found in \"{}\" or \"{}\"")
               ELSE None]

InitPath ==
    /\ xml_files = <<>>
    /\ vcall = None
    /\ vout = None
    /\ xnode = <<>>
    /\ ecall = None
    /\ eout = None
    /\ lhs = <<>>
    /\ rhs = <<>>
    /\ eq_out = None
    /\ eq_swapped = None
    /\ NoTest
    /\ xml_arg \in {None} \cup {Some(p) : p \in Paths}
    /\ env_xml \in {None} \cup {Some(p) : p \in Paths}
    /\ exists \in SUBSET {DefaultPath, DefaultAltPath}
    /\ xml = None

ResolveXmlPath ==
    /\ xml = None
    /\ xml' = Some(PathOutcome(resolve_xml_path(xml_arg, exists, env_xml)))
    /\ UNCHANGED <<rvars, evars, qvars, tvars, xml_arg, env_xml, exists>>

NextPath == ResolveXmlPath

SpecPath == InitPath /\ [][NextPath]_vars

PathDone == xml # None
PathOut == Unwrap(xml)

\* C12: the environment variable when set, otherwise the argument when given,
\* otherwise a conventional directory that exists; with none of the three
\* the path stays unresolved and the error is reported.
C12_PathPrecedence ==
    PathDone =>
        /\ env_xml # None => PathOut.xml = env_xml
        /\ (env_xml = None /\ xml_arg # None) => PathOut.xml = xml_arg
        /\ (env_xml = None /\ xml_arg = None /\ exists # {}) =>
              /\ PathOut.xml # None
              /\ Unwrap(PathOut.xml) \in exists
        /\ (env_xml = None /\ xml_arg = None /\ exists = {}) =>
              /\ PathOut.xml = None
              /\ PathOut.error # None
        /\ PathOut.xml # None => PathOut.error = None

\* The variable is set to one directory and the argument names another,
\* while ./xml exists: the variable's directory is taken.
C12_Witness ==
    /\ PathDone
    /\ env_xml = Some("zbus-lockstep-macros/tests/xml")
    /\ xml_arg = Some(DefaultAltPath)
    /\ DefaultPath \in exists
    /\ PathOut.xml = env_xml

\* ------------------------------------------------------------------------
\* Extraction of one named argument
\* ------------------------------------------------------------------------
\* The args of the member the call designates, for the kind of member the
\* called extraction reads.
MembersOf(interface) ==
    IF ECall.fn = "get_signal_body_type" THEN interface.signals
    ELSE interface.methods

\* C13: with an argument name, each extraction returns the type string of
\* the first arg of that name, whatever its direction, and fails with the
\* missing-argument error when no arg has the name; an unnamed arg never
\* matches.
C13_NamedArgument ==
    (EDone /\ ECall.arg # None) =>
        \A i \in 1..Len(xnode) :
            FirstNamed(xnode, ECall.interface_name, i) =>
                \A m \in 1..Len(MembersOf(xnode[i])) :
                    FirstNamed(MembersOf(xnode[i]), ECall.member_name, m) =>
                        LET args == MembersOf(xnode[i])[m].args
                        IN  /\ \A a \in 1..Len(args) :
                                  FirstNamed(args, ECall.arg, a) => EOut = Ok(args[a].ty)
                            /\ (\A a \in 1..Len(args) : args[a].name # ECall.arg)
                                  => EOut = MissingParameter("no matching argument found")

\* get_method_return_type returned the type of an "in" arg, the first of two
\* args of the requested name.
C13_Witness ==
    /\ EDone /\ ECall.fn = "get_method_return_type" /\ ECall.arg = Some("id")
    /\ \E i \in 1..Len(xnode) :
          /\ FirstNamed(xnode, ECall.interface_name, i)
          /\ \E m \in 1..Len(xnode[i].methods) :
                /\ FirstNamed(xnode[i].methods, ECall.member_name, m)
                /\ Len(xnode[i].methods[m].args) = 2
                /\ xnode[i].methods[m].args[1].name = Some("id")
                /\ xnode[i].methods[m].args[1].direction = Some("in")
                /\ xnode[i].methods[m].args[2].name = Some("id")
                /\ xnode[i].methods[m].args[2].ty # xnode[i].methods[m].args[1].ty
                /\ EOut = Ok(xnode[i].methods[m].args[1].ty)

\* ------------------------------------------------------------------------
\* The order in which the files are scanned
\* ------------------------------------------------------------------------
\* The same success triple, or the same kind of error.
SameOutcome(a, b) ==
    /\ a.kind = b.kind
    /\ a.kind = "Ok" => a = b

\* C14: for the same files, struct name and hints, every order in which the
\* map yields the files gives the outcome the expansion produced.
C14_OrderIndependent ==
    Done =>
        \A order \in Orders(DOMAIN xml_files) :
            SameOutcome(Expand(xml_files, order, Call.item_name, Call.args), Out)

====
